---- MODULE Spec2Model ----
(***************************************************************************)
(* A model of sibench's file-backed connection (FileConnectionBase) and of *)
(* its command line front end (validateArguments, startRun).               *)
(*                                                                         *)
(* SpecConn : one FileConnectionBase used by one worker (a worker is       *)
(*            single-threaded, and workers own disjoint keys).  The file   *)
(*            system under root/dir is part of the state; the results of   *)
(*            the open/size/read/write calls are chosen by the             *)
(*            environment.                                                 *)
(* FairConn : SpecConn with weak fairness of the program's steps.          *)
(* SpecMain : main -> validateArguments -> startRun.                       *)
(***************************************************************************)
EXTENDS Integers, Sequences, FiniteSets, TLC

\* ------------------------------------------------------------------ bounds

\* Longest buffer handed to PutObject, and largest capacity handed to GetObject.
MaxLen == 2

\* The byte values objects are made of (a fresh get buffer is zero-filled).
Bytes == {1, 2}

\* The object keys of the worker.
Keys == {"k1", "k2"}

VARIABLES
    \* the file system under the connection
    readOnly,     \* the mount refuses every modification
    dirExists,    \* root/dir exists
    files,        \* key -> contents, for the files that exist in root/dir
    \* the worker's position and the locals of the running call
    pc,           \* "idle", "put_loop", "put_wrote", "get_loop", "get_read"
    op,           \* the most recent call
    key,          \* its key
    buffer,       \* its buffer (PutObject: what is left to write)
    bufCap,       \* cap(buffer) of a GetObject
    off,          \* the descriptor's file offset
    start,        \* GetObject's start
    remaining,    \* GetObject's remaining
    n, err,       \* result of the last fd.Write / fd.Read
    ret,          \* what the most recent call returned ("none" while running)
    \* history, for stating the properties
    arg,          \* the buffer PutObject was called with
    wfailed,      \* a write call of the running PutObject returned an error
    ncalls,       \* read/write calls made by the most recent call (capped at 2)
    lastOkPut,    \* key -> buffer of the last PutObject that returned nil, with
                  \* no later truncation or removal of the key's file
    deleted,      \* keys not put again since the last successful DeleteDirectory
    \* the command line front end
    mpc,          \* "start", "bound", "validated", "serving", "done", "exit"
    args,         \* the Arguments record
    verr,         \* what validateArguments returned
    order,        \* j.order as built by startRun
    runErr,       \* Manager.Run returned an error
    reportFile    \* the --json-output file was written by this process

connVars == <<readOnly, dirExists, files, pc, op, key, buffer, bufCap, off, start,
              remaining, n, err, ret, arg, wfailed, ncalls, lastOkPut, deleted>>
mainVars == <<mpc, args, verr, order, runErr, reportFile>>
vars == <<connVars, mainVars>>

\* ----------------------------------------------------------------- helpers

Min(a, b) == IF a < b THEN a ELSE b

Buffers(len) == UNION {[1..m -> Bytes] : m \in 0..len}

Zeros(len) == [i \in 1..len |-> 0]

NoFiles == [k \in {} |-> <<>>]

Store(f, k, v) == [x \in (DOMAIN f) \cup {k} |-> IF x = k THEN v ELSE f[x]]

Drop(f, k) == [x \in (DOMAIN f) \ {k} |-> f[x]]

Bump(c) == IF c < 2 THEN c + 1 ELSE 2

\* ----------------------------------------------- the file system's calls

\* os.Mkdir in place of os.MkdirAll: an existing directory is an error.
Mkdir(exists, ro) ==
    IF exists \/ ro THEN [err |-> "err", exists |-> exists]
    ELSE [err |-> "nil", exists |-> TRUE]

\* os.MkdirAll(path): nil when path is a directory already, else creates it.
MkdirAll(exists, ro) ==
    IF exists THEN [err |-> "nil", exists |-> TRUE]
    ELSE IF ro THEN [err |-> "err", exists |-> FALSE]
    ELSE [err |-> "nil", exists |-> TRUE]

\* os.RemoveAll(path): nil when path does not exist, else removes it and all
\* it holds.
RemoveAll(exists, ro) ==
    IF ~exists THEN [err |-> "nil", exists |-> FALSE]
    ELSE IF ro THEN [err |-> "err", exists |-> TRUE]
    ELSE [err |-> "nil", exists |-> FALSE]

\* Open(filename, O_WRONLY|O_CREAT|O_TRUNC): the contents the file has once
\* it is open.
OpenTrunc(old) == <<>>

\* A write of `bytes` at offset `at` of a file holding `old`.
WriteAt(old, at, bytes) ==
    SubSeq(old, 1, at) \o bytes \o SubSeq(old, at + Len(bytes) + 1, Len(old))

\* What fd.Write(buf) may return: n bytes accepted without error (a short
\* write when n < len(buf)), or an error after n < len(buf) bytes.
WriteResults(buf) ==
    {[n |-> m, err |-> "nil"] : m \in 1..Len(buf)}
        \cup {[n |-> m, err |-> "err"] : m \in 0..(Len(buf) - 1)}

\* What fd.Read(p) may return with `avail` bytes both in the file after the
\* offset and in p: 1..avail bytes, 0 bytes without error when there is
\* nothing to transfer (end of file, or an empty p), or an error.
ReadResults(avail) ==
    {[n |-> m, err |-> "nil"] : m \in (IF avail > 0 THEN 1..avail ELSE {0})}
        \cup {[n |-> 0, err |-> "err"]}

\* fd.Read(buffer) in place of fd.Read(buffer[start:]): every chunk lands at
\* the front of the buffer.
ReadIntoFront(buf, st, bytes) ==
    [i \in 1..Len(buf) |-> IF i <= Len(bytes) THEN bytes[i] ELSE buf[i]]

\* buffer after fd.Read(buffer[start:]) transferred `bytes`.
ReadInto(buf, st, bytes) ==
    [i \in 1..Len(buf) |->
        IF i > st /\ i <= st + Len(bytes) THEN bytes[i - st] ELSE buf[i]]

\* A size check against len(buffer) in place of cap(buffer).
SizeMatchesLen(cap, len, size) == len = size

\* GetObject's size check: int64(cap(buffer)) == remaining.
SizeMatches(cap, len, size) == cap = size

\* PutObject's test of a write's result: TRUE when the call returns err.
WriteReturns(e) == e = "nil"

\* ------------------------------------------------------------- connection

Returned(o) == op = o /\ pc = "idle"

Return(r) ==
    /\ pc' = "idle"
    /\ ret' = r
    /\ n' = 0 /\ err' = "nil" /\ start' = 0 /\ remaining' = 0 /\ off' = 0

Call(o, k) ==
    /\ pc = "idle"
    /\ op' = o
    /\ key' = k

CreateDirectory ==
    /\ Call("create", key)
    /\ LET r == MkdirAll(dirExists, readOnly) IN
        /\ dirExists' = r.exists
        /\ Return(r.err)
    /\ buffer' = <<>> /\ bufCap' = 0 /\ arg' = <<>> /\ wfailed' = FALSE
    /\ ncalls' = 0
    /\ UNCHANGED <<readOnly, files, lastOkPut, deleted, mainVars>>

DeleteDirectory ==
    /\ Call("delete", key)
    /\ LET r == RemoveAll(dirExists, readOnly) IN
        /\ dirExists' = r.exists
        /\ files' = IF r.exists THEN files ELSE NoFiles
        /\ lastOkPut' = IF r.exists THEN lastOkPut ELSE NoFiles
        /\ deleted' = IF r.err = "nil" THEN Keys ELSE deleted
        /\ Return(r.err)
    /\ buffer' = <<>> /\ bufCap' = 0 /\ arg' = <<>> /\ wfailed' = FALSE
    /\ ncalls' = 0
    /\ UNCHANGED <<readOnly, mainVars>>

InvalidateCache ==
    /\ Call("invalidate", key)
    /\ Return("nil")
    /\ buffer' = <<>> /\ bufCap' = 0 /\ arg' = <<>> /\ wfailed' = FALSE
    /\ ncalls' = 0
    /\ UNCHANGED <<readOnly, dirExists, files, lastOkPut, deleted, mainVars>>

\* PutObject up to its loop: the Open.
PutObject(k, b) ==
    /\ Call("put", k)
    /\ arg' = b /\ wfailed' = FALSE /\ ncalls' = 0 /\ bufCap' = Len(b)
    /\ \E openErr \in BOOLEAN :
        IF ~dirExists \/ readOnly \/ openErr
        THEN /\ Return("err")
             /\ buffer' = <<>>
             /\ UNCHANGED <<files, lastOkPut, deleted>>
        ELSE /\ files' = Store(files, k,
                               OpenTrunc(IF k \in DOMAIN files THEN files[k] ELSE <<>>))
             /\ lastOkPut' = Drop(lastOkPut, k)
             /\ deleted' = deleted \ {k}
             /\ buffer' = b
             /\ pc' = "put_loop" /\ ret' = "none"
             /\ off' = 0
             /\ UNCHANGED <<n, err, start, remaining>>
    /\ UNCHANGED <<readOnly, dirExists, mainVars>>

\* for len(buffer) > 0 { n, err := fd.Write(buffer) ... } return nil
PutLoop ==
    /\ pc = "put_loop"
    /\ IF Len(buffer) > 0
       THEN \E r \in WriteResults(buffer) :
            /\ files' = Store(files, key, WriteAt(files[key], off, SubSeq(buffer, 1, r.n)))
            /\ off' = off + r.n
            /\ n' = r.n /\ err' = r.err
            /\ wfailed' = (wfailed \/ r.err # "nil")
            /\ ncalls' = Bump(ncalls)
            /\ pc' = "put_wrote"
            /\ UNCHANGED <<ret, start, remaining, lastOkPut>>
       ELSE /\ Return("nil")
            /\ lastOkPut' = Store(lastOkPut, key, arg)
            /\ UNCHANGED <<files, wfailed, ncalls>>
    /\ UNCHANGED <<readOnly, dirExists, op, key, buffer, bufCap, arg, deleted, mainVars>>

\* if err == nil { return err };  buffer = buffer[n:]
PutWrote ==
    /\ pc = "put_wrote"
    /\ IF WriteReturns(err)
       THEN /\ Return(err)
            /\ lastOkPut' = IF err = "nil" THEN Store(lastOkPut, key, arg) ELSE lastOkPut
            /\ UNCHANGED buffer
       ELSE /\ buffer' = SubSeq(buffer, n + 1, Len(buffer))
            /\ pc' = "put_loop"
            /\ UNCHANGED <<ret, n, err, start, remaining, off, lastOkPut>>
    /\ UNCHANGED <<readOnly, dirExists, files, op, key, bufCap, arg, wfailed, ncalls,
                   deleted, mainVars>>

\* GetObject up to its loop: the Open, the Size and the size check.  The
\* buffer has length len and capacity cap.
GetObject(k, cap, len) ==
    /\ Call("get", k)
    /\ arg' = <<>> /\ wfailed' = FALSE /\ ncalls' = 0
    /\ bufCap' = cap
    /\ buffer' = Zeros(len)
    /\ \E ioErr \in {"none", "open", "size"} :
        IF k \notin DOMAIN files \/ ioErr # "none"
        THEN Return("err")
        ELSE IF ~SizeMatches(cap, len, Len(files[k]))
        THEN Return("wrongsize")
        ELSE /\ remaining' = Len(files[k])
             /\ start' = 0 /\ off' = 0
             /\ pc' = "get_loop" /\ ret' = "none"
             /\ UNCHANGED <<n, err>>
    /\ UNCHANGED <<readOnly, dirExists, files, lastOkPut, deleted, mainVars>>

\* for remaining > 0 { n, err := fd.Read(buffer[start:]) ... } return nil
GetLoop ==
    /\ pc = "get_loop"
    /\ IF remaining > 0
       THEN \E r \in ReadResults(Min(Len(buffer) - start, Len(files[key]) - off)) :
            /\ buffer' = ReadInto(buffer, start, SubSeq(files[key], off + 1, off + r.n))
            /\ off' = off + r.n
            /\ n' = r.n /\ err' = r.err
            /\ ncalls' = Bump(ncalls)
            /\ pc' = "get_read"
            /\ UNCHANGED <<ret, start, remaining>>
       ELSE /\ Return("nil")
            /\ UNCHANGED <<buffer, ncalls>>
    /\ UNCHANGED <<readOnly, dirExists, files, op, key, bufCap, arg, wfailed, lastOkPut,
                   deleted, mainVars>>

\* if err != nil { return err };  start += n;  remaining -= int64(n)
GetRead ==
    /\ pc = "get_read"
    /\ IF err # "nil"
       THEN Return(err)
       ELSE /\ start' = start + n
            /\ remaining' = remaining - n
            /\ pc' = "get_loop"
            /\ UNCHANGED <<ret, n, err, off>>
    /\ UNCHANGED <<readOnly, dirExists, files, op, key, buffer, bufCap, arg, wfailed,
                   ncalls, lastOkPut, deleted, mainVars>>

PutCall == \E k \in Keys, b \in Buffers(MaxLen) : PutObject(k, b)

GetCall == \E k \in Keys, cap \in 0..MaxLen : \E len \in 0..cap : GetObject(k, cap, len)

\* ------------------------------------------------ 64-bit unsigned numbers
\* TLC's integers are 32 bits wide, so a number is a little-endian sequence
\* of 16-bit limbs; a uint64 has exactly four.

LimbBase == 256 * 256

Limb(x, i) == IF i <= Len(x) THEN x[i] ELSE 0

\* x * m + c for a number x of any length and small m, c: the exact value.
RECURSIVE MulAdd(_, _, _)
MulAdd(x, m, c) ==
    IF x = <<>>
    THEN IF c = 0 THEN <<>> ELSE <<c % LimbBase>> \o MulAdd(<<>>, m, c \div LimbBase)
    ELSE LET t == Head(x) * m + c
         IN  <<t % LimbBase>> \o MulAdd(Tail(x), m, t \div LimbBase)

\* The value modulo 2^64.
Wrap64(x) == [i \in 1..4 |-> Limb(x, i)]

NatEq(a, b) == \A i \in 1..(Len(a) + Len(b)) : Limb(a, i) = Limb(b, i)

IsZero(x) == \A i \in 1..Len(x) : x[i] = 0

Gt64(a, b) == \E i \in 1..4 : a[i] > b[i] /\ \A j \in (i + 1)..4 : a[j] = b[j]

MaxInt64 == <<LimbBase - 1, LimbBase - 1, LimbBase - 1, (LimbBase \div 2) - 1>>

\* uint64(v) of a Go int v, for |v| < 2^16.
Uint64OfInt(v) ==
    IF v >= 0 THEN Wrap64(MulAdd(<<>>, 1, v))
    ELSE <<LimbBase + v, LimbBase - 1, LimbBase - 1, LimbBase - 1>>

\* ------------------------------------------------------- the size string
\* A string is a sequence of one-character strings.

Digits == {"0", "1", "2", "3", "4", "5", "6", "7", "8", "9"}

Units == {"k", "K", "m", "M"}

DigitValue ==
    ("0" :> 0) @@ ("1" :> 1) @@ ("2" :> 2) @@ ("3" :> 3) @@ ("4" :> 4) @@
    ("5" :> 5) @@ ("6" :> 6) @@ ("7" :> 7) @@ ("8" :> 8) @@ ("9" :> 9)

\* The exact value of a digit string.
RECURSIVE DecValue(_)
DecValue(d) ==
    IF d = <<>> THEN <<>>
    ELSE MulAdd(DecValue(SubSeq(d, 1, Len(d) - 1)), 10, DigitValue[d[Len(d)]])

\* val, _ := strconv.Atoi(d): the value, or the largest int when it does not
\* fit (with an error, which the caller drops).
Atoi(d) ==
    LET v == DecValue(d)
    IN  IF Len(v) > 4 \/ (Len(v) = 4 /\ v[4] >= LimbBase \div 2) THEN MaxInt64 ELSE v

\* The last position of the run of digits that starts at i.
RECURSIVE DigitRunEnd(_, _)
DigitRunEnd(s, i) ==
    IF i < Len(s) /\ s[i + 1] \in Digits THEN DigitRunEnd(s, i + 1) ELSE i

\* ([1-9][0-9]*)([kKmM]) matches at position i of s.
MatchesAt(s, i) ==
    /\ s[i] \in Digits \ {"0"}
    /\ DigitRunEnd(s, i) < Len(s)
    /\ s[DigitRunEnd(s, i) + 1] \in Units

\* re.FindStringSubmatch(s): <<match, group 1, group 2>> of the leftmost
\* match, or <<>> (nil) when nothing in s matches.
FindStringSubmatch(s) ==
    LET at == {i \in 1..Len(s) : MatchesAt(s, i)}
    IN  IF at = {} THEN <<>>
        ELSE LET i == CHOOSE x \in at : \A y \in at : x <= y
                 e == DigitRunEnd(s, i)
             IN  <<SubSeq(s, i, e + 1), SubSeq(s, i, e), s[e + 1]>>

\* strings.EqualFold(u, "m")
EqualFoldM(u) == u \in {"m", "M"}

\* args.SizeInBytes as validateArguments computes it from the groups.
SizeInBytes(groups) ==
    LET kb == Wrap64(MulAdd(Atoi(groups[2]), 1024, 0))
    IN  IF EqualFoldM(groups[3]) THEN Wrap64(MulAdd(kb, 1024, 0)) ELSE kb

\* The error validateArguments returns for a.
ValidateError(a) ==
    IF a.Port < 0 \/ a.Port > 65535 THEN "Port not in range"
    ELSE IF a.S3Port < 0 \/ a.S3Port > 65535 THEN "S3 Port not in range"
    ELSE IF FindStringSubmatch(a.Size) = <<>> THEN "Bad size specifier"
    ELSE "nil"

\* ------------------------------------------------------- main's inputs

\* Longest size string enumerated over SizeAlphabet.
MaxSizeLen == 3

\* Largest --objects value.
MaxObjects == 2

SizeAlphabet == {"0", "1", "5", "K", "m", "."}

Str(len) == UNION {[1..l -> SizeAlphabet] : l \in 0..len}

\* Size strings of the usage text and of the edge of the 64-bit range.
LongSizes ==
    { <<"1", ".", "5", "M">>, <<"1", "0", "M", "B">>, <<"x", "3", "K">>,
      <<"1", "0", "2", "4", "k">>,
      \* 2^54 K = 2^64
      <<"1","8","0","1","4","3","9","8","5","0","9","4","8","1","9","8","4","K">>,
      \* 2^54 - 1 K
      <<"1","8","0","1","4","3","9","8","5","0","9","4","8","1","9","8","3","K">>,
      \* 2^44 M = 2^64
      <<"1","7","5","9","2","1","8","6","0","4","4","4","1","6","M">>,
      \* 2^63 K: Atoi's range error
      <<"9","2","2","3","3","7","2","0","3","6","8","5","4","7","7","5","8","0","8","K">> }

SizeStrings == Str(MaxSizeLen) \cup LongSizes

Ports == {-1, 5150, 65536}

S3Ports == {7480, 70000}

ObjectCounts == (-2)..MaxObjects

JsonOutputs == {"", "out.json"}

\* --------------------------------------------------------------- main

NoArgs ==
    [Mode |-> "none", Port |-> 0, S3Port |-> 0, Size |-> <<>>, Objects |-> 0,
     JsonOutput |-> "", SizeInBytes |-> Wrap64(<<>>)]

NoOrder ==
    [JobId |-> 0, ObjectSize |-> Wrap64(<<>>), RangeStart |-> Wrap64(<<>>),
     RangeEnd |-> Wrap64(<<>>), ConnectionType |-> "", Port |-> 0]

MainIdle ==
    /\ mpc = "start"
    /\ args = NoArgs
    /\ verr = "nil"
    /\ order = NoOrder
    /\ runErr = FALSE
    /\ reportFile = FALSE

\* docopt.ParseDoc and opts.Bind: the command line as an Arguments record.
Bind ==
    /\ mpc = "start"
    /\ \E mode \in {"server", "s3", "rados"}, port \in Ports, s3port \in S3Ports,
          size \in SizeStrings, objects \in ObjectCounts, json \in JsonOutputs :
        args' = [Mode |-> mode, Port |-> port, S3Port |-> s3port, Size |-> size,
                 Objects |-> objects, JsonOutput |-> json,
                 SizeInBytes |-> Wrap64(<<>>)]
    /\ mpc' = "bound"
    /\ UNCHANGED <<verr, order, runErr, reportFile, connVars>>

\* err = validateArguments(&args); dieOnError(err, ...)
ValidateArguments ==
    /\ mpc = "bound"
    /\ verr' = ValidateError(args)
    /\ IF verr' = "nil"
       THEN /\ args' = [args EXCEPT !.SizeInBytes = SizeInBytes(FindStringSubmatch(args.Size))]
            /\ mpc' = "validated"
       ELSE /\ mpc' = "exit"
            /\ UNCHANGED args
    /\ UNCHANGED <<order, runErr, reportFile, connVars>>

\* if args.Server { startServer(&args) }
StartServer ==
    /\ mpc = "validated"
    /\ args.Mode = "server"
    /\ mpc' = "serving"
    /\ UNCHANGED <<args, verr, order, runErr, reportFile, connVars>>

\* j.order as startRun fills it in.
BuildOrder(a) ==
    [JobId |-> 1,
     ObjectSize |-> a.SizeInBytes,
     RangeStart |-> Wrap64(<<>>),
     RangeEnd |-> Uint64OfInt(a.Objects),
     ConnectionType |-> a.Mode,
     Port |-> IF a.Mode = "s3" THEN a.S3Port % LimbBase ELSE 0]

\* Whether startRun writes the report file, given what m.Run returned.
WritesReport(a, rerr) == a.JsonOutput # ""

\* if args.Run { startRun(&args) }: the order, m.Run, the report.  m.Run's
\* result, json.MarshalIndent's and ioutil.WriteFile's are the environment's.
StartRun ==
    /\ mpc = "validated"
    /\ args.Mode \in {"s3", "rados"}
    /\ order' = BuildOrder(args)
    /\ \E rerr \in BOOLEAN, merr \in BOOLEAN, werr \in {"nil", "open", "write"} :
        /\ runErr' = rerr
        /\ IF merr
           THEN /\ reportFile' = FALSE
                /\ mpc' = "exit"
           ELSE IF WritesReport(args, rerr)
           THEN /\ reportFile' = (werr # "open")
                /\ mpc' = IF werr = "nil" THEN "done" ELSE "exit"
           ELSE /\ reportFile' = FALSE
                /\ mpc' = "done"
    /\ UNCHANGED <<args, verr, connVars>>

ConnIdle ==
    /\ readOnly = FALSE
    /\ dirExists = FALSE
    /\ files = NoFiles
    /\ pc = "idle" /\ op = "none" /\ key = "k1"
    /\ buffer = <<>> /\ bufCap = 0 /\ off = 0 /\ start = 0 /\ remaining = 0
    /\ n = 0 /\ err = "nil" /\ ret = "none"
    /\ arg = <<>> /\ wfailed = FALSE /\ ncalls = 0
    /\ lastOkPut = NoFiles
    /\ deleted = {}

InitMain == MainIdle /\ ConnIdle

NextMain ==
    \/ Bind
    \/ ValidateArguments
    \/ StartServer
    \/ StartRun

SpecMain == InitMain /\ [][NextMain]_vars

\* After InitFileConnectionBase: nothing was called; root/dir may or may not
\* exist on the mount, and the mount may be read-only.
InitConn ==
    /\ readOnly \in BOOLEAN
    /\ dirExists \in BOOLEAN
    /\ files = NoFiles
    /\ pc = "idle" /\ op = "none" /\ key = "k1"
    /\ buffer = <<>> /\ bufCap = 0 /\ off = 0 /\ start = 0 /\ remaining = 0
    /\ n = 0 /\ err = "nil" /\ ret = "none"
    /\ arg = <<>> /\ wfailed = FALSE /\ ncalls = 0
    /\ lastOkPut = NoFiles
    /\ deleted = {}
    /\ MainIdle

NextConn ==
    \/ CreateDirectory
    \/ DeleteDirectory
    \/ InvalidateCache
    \/ PutCall
    \/ PutLoop
    \/ PutWrote
    \/ GetCall
    \/ GetLoop
    \/ GetRead

SpecConn == InitConn /\ [][NextConn]_vars

\* A call once made runs on: the worker's goroutine is scheduled.
FairConn == SpecConn /\ WF_vars(PutLoop) /\ WF_vars(PutWrote)
                     /\ WF_vars(GetLoop) /\ WF_vars(GetRead)

\* ------------------------------------------------------------ properties

\* C1: when PutObject returns nil, the file for key holds exactly the bytes
\* of the buffer it was called with, however the write calls split it.
C1_PutStoresWholeBuffer ==
    (Returned("put") /\ ret = "nil") => (key \in DOMAIN files /\ files[key] = arg)

\* C2: a PutObject in which a write call returned an error does not return
\* nil.
C2_FailedWriteFailsPut ==
    (Returned("put") /\ wfailed) => ret # "nil"

\* C3: GetObject returns an error whenever no object is stored under key or
\* the stored object's size differs from cap(buffer), whatever was called
\* before.  (GetObject leaves the files alone, so the file at its return is
\* the file it was called on.)
C3_GetRejectsWrongSize ==
    (Returned("get") /\ (key \notin DOMAIN files \/ Len(files[key]) # bufCap))
        => ret # "nil"

\* A GetObject returned on a stored object whose size is the buffer's length
\* and not its capacity.
C3_Witness ==
    /\ Returned("get")
    /\ key \in DOMAIN files
    /\ Len(files[key]) # bufCap
    /\ Len(files[key]) = Len(buffer)
    /\ Len(buffer) > 0
    /\ ret = "wrongsize"

\* C4: a GetObject that returns nil into a buffer of capacity len(b), after a
\* PutObject of b under the same key returned nil with no later write to the
\* key, leaves the buffer equal to b.
C4_RoundTrip ==
    (/\ Returned("get") /\ ret = "nil"
     /\ key \in DOMAIN lastOkPut
     /\ bufCap = Len(lastOkPut[key]))
        => buffer = lastOkPut[key]

\* Such a round trip, of two bytes at least, read back in several chunks.
C4_Witness ==
    /\ Returned("get") /\ ret = "nil"
    /\ key \in DOMAIN lastOkPut
    /\ bufCap = Len(lastOkPut[key])
    /\ Len(buffer) >= 2
    /\ ncalls >= 2
    /\ buffer = lastOkPut[key]

\* The product the size string of an accepted command line stands for.
ExactSize(groups) ==
    LET kb == MulAdd(DecValue(groups[2]), 1024, 0)
    IN  IF groups[3] \in {"m", "M"} THEN MulAdd(kb, 1024, 0) ELSE kb

\* C5: every Order startRun builds has ObjectSize > 0, equal to the product
\* its size string stands for (no wrap-around modulo 2^64).
C5_ObjectSizePositive ==
    order.JobId = 1 =>
        /\ ~IsZero(order.ObjectSize)
        /\ NatEq(order.ObjectSize, ExactSize(FindStringSubmatch(args.Size)))

\* C6: every Order startRun builds has RangeEnd > RangeStart, for every
\* --objects value.
C6_RangeNotEmpty ==
    order.JobId = 1 => Gt64(order.RangeEnd, order.RangeStart)

\* C7: when Manager.Run returned an error, startRun writes no report file.
C7_NoReportOnRunError ==
    (mpc \in {"done", "exit"} /\ runErr) => ~reportFile

\* A positive decimal integer without leading zero followed by one unit
\* letter, and nothing else.
WellFormedSize(s) ==
    /\ Len(s) >= 2
    /\ s[1] \in Digits \ {"0"}
    /\ \A i \in 2..(Len(s) - 1) : s[i] \in Digits
    /\ s[Len(s)] \in Units

\* C8: validateArguments accepts a size string exactly when the whole string
\* is well formed, then with SizeInBytes the product it stands for, and
\* rejects every other string with "Bad size specifier".
C8_SizeAcceptedIffWellFormed ==
    (/\ mpc \notin {"start", "bound"}
     /\ verr \in {"nil", "Bad size specifier"})
        => IF WellFormedSize(args.Size)
           THEN /\ verr = "nil"
                /\ NatEq(args.SizeInBytes,
                         ExactSize(<<args.Size, SubSeq(args.Size, 1, Len(args.Size) - 1),
                                     args.Size[Len(args.Size)]>>))
           ELSE verr = "Bad size specifier"

\* C9: CreateDirectory on an existing directory returns nil and leaves its
\* objects as they are; DeleteDirectory on an absent directory returns nil;
\* a second consecutive call of either returns what the first returned and
\* changes nothing; and once DeleteDirectory returned nil, GetObject of a key
\* returns an error until the key is put again.
C9_Idempotent ==
    /\ [][/\ (CreateDirectory /\ dirExists)
                => (ret' = "nil" /\ dirExists' /\ files' = files)
          /\ (CreateDirectory /\ Returned("create"))
                => (ret' = ret /\ dirExists' = dirExists /\ files' = files)
          /\ (DeleteDirectory /\ ~dirExists)
                => (ret' = "nil" /\ ~dirExists' /\ files' = files)
          /\ (DeleteDirectory /\ Returned("delete"))
                => (ret' = ret /\ dirExists' = dirExists /\ files' = files)
          /\ (DeleteDirectory /\ ret' = "nil")
                => (~dirExists' /\ files' = NoFiles)]_vars
    /\ []((Returned("get") /\ key \in deleted) => ret # "nil")

\* CreateDirectory returned over a directory that holds an object.
C9_Witness ==
    /\ Returned("create")
    /\ ret = "nil"
    /\ dirExists
    /\ \E k \in DOMAIN files : Len(files[k]) > 0

\* C10: every PutObject and every GetObject call returns.
C10_CallsReturn == (pc # "idle") ~> (pc = "idle")

====
